---- MODULE Spec2Model ----
(***************************************************************************)
(* Website screenshot / DOM embedding service (packages/embed/main.py).    *)
(*                                                                         *)
(* The model follows the three FastAPI endpoints and the Embedder methods  *)
(* they call.  Every `await` of the source is one step of the request that *)
(* executes it; the outcome of each browser or model call (return value or *)
(* raised exception) is chosen by the environment.                         *)
(***************************************************************************)
EXTENDS Integers, Sequences, FiniteSets, TLC

\* ------------------------------------------------------------------ bounds
NumReq == 2          \* request slots of the worker
NumSelectors == 2    \* entries of close_selectors that are modelled
MaxElems == 2        \* elements a selector query may return
EmbedWidth == 3      \* stand-in for the native width of the embedding model

Reqs == 1..NumReq
PageIds == 1..NumReq

\* ------------------------------------------------------------ input values
None == "None"                       \* item.get(...) of an absent key
Urls == {"https://example.com"}
Images == {"aGVsbG8=", "abc"}
FieldValues(S) == {None, ""} \cup S

\* messages of the exceptions the collaborators raise
TimeoutMsg == "Timeout 6000ms exceeded"
NavErrorMsg == "net::ERR_NAME_NOT_RESOLVED"
BrowserMsg == "Target closed"
ModelMsg == "model error"
IndexMsg == "tuple index out of range"
PaddingMsg == "Incorrect padding"
NoExc == "no exception"

\* shapes of the tensor an embedder may hand back (after squeeze())
FeatShapes == {<<>>, <<EmbedWidth>>, <<EmbedWidth + 1>>, <<2, EmbedWidth>>}

VARIABLES
    pc,       \* position of each request in its handler
    req,      \* the request: endpoint and the body fields url, image
    page,     \* local variable `page` of _screenshot / _get_dom_from_url
    pages,    \* the pages of the shared browser
    exc,      \* exception in flight while a finally block runs
    ret,      \* value the capture function is about to return (buf / dom_content)
    resp,     \* the response envelope handed back to the caller
    raised,   \* exception that left the request handler
    nav,      \* outcome of page.goto for the request
    cnt,      \* calls made for the request, by operation
    dm,       \* local state of _dismiss_modals
    embedIn,  \* the artifact handed to the embedding capability
    worker,   \* the warm container: the handles self.embedder, self.dom_embedder,
              \* self.pw and self.browser, and the calls that made and released them
    maxInputs, \* inputs the container runs at a time
    cli       \* one run of a command-line script (local_embedder.py or
              \* dom_embedder.py): its inputs, position, stdout and exit status

serviceVars == <<pc, req, page, pages, exc, ret, resp, raised, nav, cnt, dm,
                 embedIn, worker, maxInputs>>

vars == <<pc, req, page, pages, exc, ret, resp, raised, nav, cnt, dm,
          embedIn, worker, maxInputs, cli>>

NoReq == [endpoint |-> "none", url |-> None, image |-> None]
NoResp == [pending |-> TRUE]
NoPage == [state |-> "unused", owner |-> 0, closeCalls |-> 0, closeRaised |-> FALSE]
NoCnt == [newPage |-> 0, goto |-> 0, escape |-> 0, dismiss |-> 0,
          extract |-> 0, embed |-> 0]
NoDm == [sel |-> 0, n |-> 0, idx |-> 0, dismissed |-> FALSE,
         clicks |-> 0, backdropClicks |-> 0, log |-> <<>>, returned |-> FALSE,
         stepFailed |-> FALSE, clicked |-> 0]
NoCli == [pc |-> "none", prog |-> "none", argv |-> <<>>, stdin |-> <<>>,
          errors |-> "strict", base64 |-> "", feat |-> <<>>, stdout |-> <<>>,
          status |-> "running"]
ColdWorker == [phase |-> "cold", embedder |-> "unset", dom_embedder |-> "unset",
               pw |-> "unset", browser |-> "unset",
               pwStarts |-> 0, pwStops |-> 0, launches |-> 0, closes |-> 0]

\* ------------------------------------------------------------ python helpers
\* variant of Truthy: an `is not None` test, which lets "" through
TruthyNotNone(v) == v # None

\* Python truthiness of a body field: None and "" are falsy
Truthy(v) == v # None /\ v # ""

\* base64.b64decode raises binascii.Error on a string that is not padded to
\* a multiple of four characters
B64DecodeOk(b64) == Len(b64) % 4 = 0

\* base64.b64decode on the request strings that decode
B64Decode(b64) == IF b64 = "aGVsbG8=" THEN "hello" ELSE ""

\* base64.b64encode(buf).decode(): the encoding is kept symbolic, one
\* string per byte string
B64Encode(buf) == <<"b64", buf>>

\* feat.shape[-1]: raises IndexError on a 0-dimensional tensor
HasLastDim(shape) == Len(shape) > 0
LastDim(shape) == shape[Len(shape)]

\* ------------------------------------------------------------ envelopes
RootMissingInput ==
    [success |-> FALSE, error |-> <<"Either URL or image parameter is required">>]

DomMissingUrl ==
    [success |-> FALSE, error |-> <<"URL parameter is required">>]

\* variant of HealthOk: a health check that looks at the browser handle
HealthProbesBrowser ==
    [status |-> IF worker.browser = "up" THEN "ok" ELSE "unavailable",
     service |-> "website-embed-service"]

HealthOk == [status |-> "ok", service |-> "website-embed-service"]

ScreenshotFailed(url) ==
    [success |-> FALSE, error |-> <<"Screenshot failed">>, url |-> url]

\* variant of GenerateSuccess: the size taken from the encoded value
GenerateSuccessEncodedSize(url, buf, shape) ==
    [success |-> TRUE, url |-> url, screenshot |-> B64Encode(buf),
     embedding |-> <<"vector", shape>>, dimensions |-> LastDim(shape),
     screenshot_size |-> Len(B64Encode(buf))]

GenerateSuccess(url, buf, shape) ==
    [success |-> TRUE, url |-> url, screenshot |-> B64Encode(buf),
     embedding |-> <<"vector", shape>>, dimensions |-> LastDim(shape),
     screenshot_size |-> Len(buf)]

GenerateEmbedFailed(url, msg) ==
    [success |-> FALSE, error |-> <<"Embedding failed: ", msg>>, url |-> url]

ImageSuccess(shape) ==
    [success |-> TRUE, embedding |-> <<"vector", shape>>,
     dimensions |-> LastDim(shape)]

\* variant of ImageFailed: generate's failure envelope copied, url and all
ImageFailedWithUrl(msg) ==
    [success |-> FALSE, error |-> <<"Embedding failed: ", msg>>, url |-> None]

ImageFailed(msg) ==
    [success |-> FALSE, error |-> <<"Embedding failed: ", msg>>]

DomFetchFailed(url) ==
    [success |-> FALSE, error |-> <<"Failed to fetch DOM content from URL: ", url>>]

DomSuccess(url, shape) ==
    [success |-> TRUE, url |-> url, embedding |-> <<"vector", shape>>,
     dimensions |-> LastDim(shape)]

DomFailed(url, msg) ==
    [success |-> FALSE, error |-> <<"DOM embedding failed: ", msg>>, url |-> url]

\* ------------------------------------------------------------ initial state
NoRequests ==
    /\ pc = [r \in Reqs |-> "idle"]
    /\ req = [r \in Reqs |-> NoReq]
    /\ page = [r \in Reqs |-> 0]
    /\ pages = [p \in PageIds |-> NoPage]
    /\ exc = [r \in Reqs |-> NoExc]
    /\ ret = [r \in Reqs |-> None]
    /\ resp = [r \in Reqs |-> NoResp]
    /\ raised = [r \in Reqs |-> NoExc]
    /\ nav = [r \in Reqs |-> "none"]
    /\ cnt = [r \in Reqs |-> NoCnt]
    /\ dm = [r \in Reqs |-> NoDm]
    /\ embedIn = [r \in Reqs |-> None]
    /\ worker = ColdWorker

\* app.cls sets no concurrency option: the container runs one input at a time
Init == NoRequests /\ maxInputs = 1 /\ cli = NoCli

\* the scheduling section 5 of the design describes: requests of one worker
\* interleave at their awaits
ConcInit == NoRequests /\ maxInputs = NumReq /\ cli = NoCli

\* ------------------------------------------------------------ shared steps
Set(f, r, v) == [f EXCEPT ![r] = v]
Count(r, op) == [cnt EXCEPT ![r][op] = @ + 1]

\* a request that occupies an input slot of the container (the health
\* endpoint is a function of its own and never enters the Embedder)
InContainer(q) == pc[q] # "idle" /\ req[q].endpoint # "/health"

\* the container is warm (setup has returned) and has an input slot free
WorkerFree ==
    /\ worker.phase = "warm"
    /\ Cardinality({q \in Reqs : InContainer(q)}) < maxInputs

\* a request between the return of its capture and the return of its handler:
\* embed_buffer / embed_dom are plain calls there, with no await
InInference(q) == pc[q] \in {"g_embed", "d_embed", "i_embed"}

\* variant of LoopFree: inference handed to a thread, which frees the loop
LoopFreeOffThread(r) == TRUE

\* the event loop can run a step of r: no other request is inside a
\* synchronous stretch
LoopFree(r) == \A q \in Reqs \ {r} : ~InInference(q)

\* variant of FreshPage: new_page() hands out one shared page
FreshPageShared == CHOOSE p \in PageIds : \A q \in PageIds : p <= q

\* browser.new_page(): a page object no request holds yet
FreshPage == CHOOSE p \in PageIds :
                /\ pages[p].state = "unused"
                /\ \A q \in PageIds : pages[q].state = "unused" => p <= q

Opened(r) == [state |-> "open", owner |-> r, closeCalls |-> 0, closeRaised |-> FALSE]

\* variant of CloseInFinally: close() at the end of the try body instead of
\* in a finally block, so that it is skipped when an exception is in flight
CloseOnlyOnSuccess(pg, e, st, failed) ==
    IF e = NoExc
    THEN [pg EXCEPT !.state = st, !.closeCalls = @ + 1, !.closeRaised = failed]
    ELSE pg

\* variant of CloseInFinally: the page is left to be closed after the
\* embedding, so nothing happens to it before the capture returns
CloseAfterEmbed(pg, e, st, failed) == pg

\* page.close() in the finally block; e = the exception in flight, st = the
\* page's state after the call ("closed" when close() returns; when close()
\* itself raises the page may or may not be gone)
CloseInFinally(pg, e, st, failed) ==
    [pg EXCEPT !.state = st, !.closeCalls = @ + 1, !.closeRaised = failed]

\* ------------------------------------------------------------ endpoints
\* variant of RootRoute: the two tests in the other order
RootRouteImageFirst(url, image) ==
    IF Truthy(image) THEN "embed_image"
    ELSE IF Truthy(url) THEN "generate"
    ELSE "reject"

\* web_generate_screenshot_and_embedding: if url / elif image / else
RootRoute(url, image) ==
    IF Truthy(url) THEN "generate"
    ELSE IF Truthy(image) THEN "embed_image"
    ELSE "reject"

\* web_embed_dom: if not url
DomRoute(url) == IF ~Truthy(url) THEN "reject" ELSE "embed_dom"

WebGenerate(r) ==
    /\ pc[r] = "idle"
    /\ \E url \in FieldValues(Urls), image \in FieldValues(Images) :
          /\ req' = Set(req, r, [endpoint |-> "/", url |-> url, image |-> image])
          /\ CASE RootRoute(url, image) = "generate" ->
                    /\ WorkerFree
                    /\ pc' = Set(pc, r, "g_newpage")
                    /\ resp' = resp
               [] RootRoute(url, image) = "embed_image" ->
                    /\ WorkerFree /\ LoopFree(r)
                    /\ pc' = Set(pc, r, "i_embed")
                    /\ resp' = resp
               [] OTHER ->
                    /\ pc' = Set(pc, r, "done")
                    /\ resp' = Set(resp, r, RootMissingInput)
    /\ UNCHANGED <<page, pages, exc, ret, raised, nav, cnt, dm,
                   embedIn, worker, maxInputs, cli>>

WebEmbedDom(r) ==
    /\ pc[r] = "idle"
    /\ \E url \in FieldValues(Urls) :
          /\ req' = Set(req, r, [endpoint |-> "/dom", url |-> url, image |-> None])
          /\ IF DomRoute(url) = "reject"
             THEN /\ pc' = Set(pc, r, "done")
                  /\ resp' = Set(resp, r, DomMissingUrl)
             ELSE /\ WorkerFree
                  /\ pc' = Set(pc, r, "d_newpage")
                  /\ resp' = resp
    /\ UNCHANGED <<page, pages, exc, ret, raised, nav, cnt, dm,
                   embedIn, worker, maxInputs, cli>>

WebHealthCheck(r) ==
    /\ pc[r] = "idle"
    /\ req' = Set(req, r, [endpoint |-> "/health", url |-> None, image |-> None])
    /\ pc' = Set(pc, r, "done")
    /\ resp' = Set(resp, r, HealthOk)
    /\ UNCHANGED <<page, pages, exc, ret, raised, nav, cnt, dm,
                   embedIn, worker, maxInputs, cli>>

\* the caller has its answer; the request's frame and its page object are gone
Respond(r) ==
    /\ pc[r] = "done"
    /\ pc' = Set(pc, r, "idle")
    /\ req' = Set(req, r, NoReq)
    /\ page' = Set(page, r, 0)
    /\ pages' = [p \in PageIds |-> IF p = page[r] THEN NoPage ELSE pages[p]]
    /\ exc' = Set(exc, r, NoExc)
    /\ ret' = Set(ret, r, None)
    /\ resp' = Set(resp, r, NoResp)
    /\ raised' = Set(raised, r, NoExc)
    /\ nav' = Set(nav, r, "none")
    /\ cnt' = Set(cnt, r, NoCnt)
    /\ dm' = Set(dm, r, NoDm)
    /\ embedIn' = Set(embedIn, r, None)
    /\ UNCHANGED <<worker, maxInputs, cli>>

\* ------------------------------------------------------------ _screenshot
\* variant of AfterNewPageError: a handler that relaunches the browser
RelaunchAfterNewPageError(w) == [w EXCEPT !.browser = "up", !.launches = @ + 1]

\* self.browser after new_page() raised: no handler assigns self.browser,
\* self.pw, self.embedder or self.dom_embedder
AfterNewPageError(w) == w

ScreenshotNewPage(r) ==
    /\ pc[r] = "g_newpage"
    /\ LoopFree(r)
    /\ cnt' = Count(r, "newPage")
    /\ \/ /\ pages' = Set(pages, FreshPage, Opened(r))
          /\ page' = Set(page, r, FreshPage)
          /\ pc' = Set(pc, r, "g_goto")
          /\ raised' = raised
          /\ worker' = worker
       \/ \* new_page raises: nothing in generate catches it
          /\ raised' = Set(raised, r, BrowserMsg)
          /\ pc' = Set(pc, r, "done")
          /\ worker' = AfterNewPageError(worker)
          /\ UNCHANGED <<page, pages>>
    /\ UNCHANGED <<req, exc, ret, resp, nav, dm,
                   embedIn, maxInputs, cli>>

\* where _screenshot continues after page.goto
ScreenshotAfterGoto(outcome) == IF outcome = "ok" THEN "g_escape" ELSE "g_close"

GotoMsg(outcome) ==
    CASE outcome = "timeout" -> TimeoutMsg
      [] outcome = "error" -> NavErrorMsg
      [] OTHER -> NoExc

ScreenshotGoto(r) ==
    /\ pc[r] = "g_goto"
    /\ LoopFree(r)
    /\ cnt' = Count(r, "goto")
    /\ \E outcome \in {"ok", "timeout", "error"} :
          /\ nav' = Set(nav, r, outcome)
          /\ exc' = Set(exc, r, GotoMsg(outcome))
          /\ pc' = Set(pc, r, ScreenshotAfterGoto(outcome))
    /\ UNCHANGED <<req, page, pages, ret, resp, raised, dm,
                   embedIn, worker, maxInputs, cli>>

\* page.keyboard.press("Escape"), the quick modal dismiss
ScreenshotEscape(r) ==
    /\ pc[r] = "g_escape"
    /\ LoopFree(r)
    /\ cnt' = Count(r, "escape")
    /\ \/ /\ pc' = Set(pc, r, "g_shot")
          /\ exc' = exc
          /\ dm' = dm
       \/ /\ exc' = Set(exc, r, BrowserMsg)
          /\ pc' = Set(pc, r, "g_close")
          /\ dm' = Set(dm, r, [dm[r] EXCEPT !.stepFailed = TRUE])
    /\ UNCHANGED <<req, page, pages, ret, resp, raised, nav,
                   embedIn, worker, maxInputs, cli>>

ScreenshotCapture(r) ==
    /\ pc[r] = "g_shot"
    /\ LoopFree(r)
    /\ cnt' = Count(r, "extract")
    /\ \/ \E buf \in {"JPEG", ""} :
             /\ ret' = Set(ret, r, buf)
             /\ exc' = exc
       \/ /\ exc' = Set(exc, r, BrowserMsg)
          /\ ret' = ret
    /\ pc' = Set(pc, r, "g_close")
    /\ UNCHANGED <<req, page, pages, resp, raised, nav, dm,
                   embedIn, worker, maxInputs, cli>>

\* finally: await page.close(); then generate's `if not buf`
ScreenshotClose(r) ==
    /\ pc[r] = "g_close"
    /\ LoopFree(r)
    /\ \/ /\ pages' = Set(pages, page[r], CloseInFinally(pages[page[r]], exc[r], "closed", FALSE))
          /\ IF exc[r] # NoExc
             THEN /\ raised' = Set(raised, r, exc[r])
                  /\ pc' = Set(pc, r, "done")
                  /\ resp' = resp
             ELSE /\ raised' = raised
                  /\ IF ~Truthy(ret[r])
                     THEN /\ resp' = Set(resp, r, ScreenshotFailed(req[r].url))
                          /\ pc' = Set(pc, r, "done")
                     ELSE /\ resp' = resp
                          /\ pc' = Set(pc, r, "g_embed")
       \/ \* page.close() raises: its exception replaces the one in flight
          \E st \in {"open", "closed"} :
             /\ pages' = Set(pages, page[r], CloseInFinally(pages[page[r]], exc[r], st, TRUE))
             /\ raised' = Set(raised, r, BrowserMsg)
             /\ pc' = Set(pc, r, "done")
             /\ resp' = resp
    /\ exc' = Set(exc, r, NoExc)
    /\ UNCHANGED <<req, page, ret, nav, cnt, dm,
                   embedIn, worker, maxInputs, cli>>

\* ------------------------------------------------------------ generate
\* self.embedder.embed_buffer(buf) and the envelope built from feat
GenerateEmbed(r) ==
    /\ pc[r] = "g_embed"
    /\ LoopFree(r)
    /\ cnt' = Count(r, "embed")
    /\ embedIn' = Set(embedIn, r, ret[r])
    /\ \/ \E shape \in FeatShapes :
             resp' = Set(resp, r,
                         IF HasLastDim(shape)
                         THEN GenerateSuccess(req[r].url, ret[r], shape)
                         ELSE GenerateEmbedFailed(req[r].url, IndexMsg))
       \/ resp' = Set(resp, r, GenerateEmbedFailed(req[r].url, ModelMsg))
    /\ pc' = Set(pc, r, "done")
    /\ UNCHANGED <<req, page, pages, exc, ret, raised, nav, dm,
                   worker, maxInputs, cli>>

\* ------------------------------------------------------------ embed_image
\* base64.b64decode, embed_buffer and the envelope, all inside one try
EmbedImage(r) ==
    /\ pc[r] = "i_embed"
    /\ LoopFree(r)
    /\ IF ~B64DecodeOk(req[r].image)
       THEN /\ resp' = Set(resp, r, ImageFailed(PaddingMsg))
            /\ cnt' = cnt
            /\ embedIn' = embedIn
       ELSE /\ cnt' = Count(r, "embed")
            /\ embedIn' = Set(embedIn, r, B64Decode(req[r].image))
            /\ \/ \E shape \in FeatShapes :
                     resp' = Set(resp, r,
                                 IF HasLastDim(shape) THEN ImageSuccess(shape)
                                 ELSE ImageFailed(IndexMsg))
               \/ resp' = Set(resp, r, ImageFailed(ModelMsg))
    /\ pc' = Set(pc, r, "done")
    /\ UNCHANGED <<req, page, pages, exc, ret, raised, nav, dm,
                   worker, maxInputs, cli>>

\* ------------------------------------------------------------ _get_dom_from_url
DomNewPage(r) ==
    /\ pc[r] = "d_newpage"
    /\ LoopFree(r)
    /\ cnt' = Count(r, "newPage")
    /\ \/ /\ pages' = Set(pages, FreshPage, Opened(r))
          /\ page' = Set(page, r, FreshPage)
          /\ pc' = Set(pc, r, "d_goto")
          /\ resp' = resp
          /\ worker' = worker
       \/ \* new_page raises before the try: embed_dom's except answers
          /\ resp' = Set(resp, r, DomFailed(req[r].url, BrowserMsg))
          /\ pc' = Set(pc, r, "done")
          /\ worker' = AfterNewPageError(worker)
          /\ UNCHANGED <<page, pages>>
    /\ UNCHANGED <<req, exc, ret, raised, nav, dm,
                   embedIn, maxInputs, cli>>

\* variant of DomAfterGoto: the call of _dismiss_modals left out
DomAfterGotoNoDismiss(outcome) == IF outcome = "ok" THEN "d_content" ELSE "d_close"

\* where _get_dom_from_url continues after page.goto: into _dismiss_modals,
\* or through `except Exception` (return None) to the finally block
DomAfterGoto(outcome) == IF outcome = "ok" THEN "m_esc1" ELSE "d_close"

DomGoto(r) ==
    /\ pc[r] = "d_goto"
    /\ LoopFree(r)
    /\ \E outcome \in {"ok", "timeout", "error"} :
          /\ nav' = Set(nav, r, outcome)
          /\ pc' = Set(pc, r, DomAfterGoto(outcome))
          /\ cnt' = [cnt EXCEPT ![r].goto = @ + 1,
                                ![r].dismiss = IF DomAfterGoto(outcome) = "m_esc1"
                                               THEN @ + 1 ELSE @]
    /\ UNCHANGED <<req, page, pages, exc, ret, resp, raised, dm,
                   embedIn, worker, maxInputs, cli>>

\* ------------------------------------------------------------ _dismiss_modals
Logged(d, what) == [d EXCEPT !.log = Append(@, what)]
Failed(d) == [d EXCEPT !.stepFailed = TRUE]

\* the outer `except Exception`, or falling off the end of the function
DismissReturn(r, d) ==
    /\ dm' = Set(dm, r, [d EXCEPT !.returned = TRUE, !.sel = 0, !.n = 0, !.idx = 0])
    /\ pc' = Set(pc, r, "d_content")

DismissGoto(r, d, where) ==
    /\ dm' = Set(dm, r, d)
    /\ pc' = Set(pc, r, where)

\* variant: strategy 3 attempted whether or not the scan dismissed
AfterScanAlwaysBackdrop(r, d) ==
    DismissGoto(r, [d EXCEPT !.sel = 0, !.n = 0, !.idx = 0], "m_bquery")

\* after the selector loop: strategy 3 is guarded by `if not dismissed`
AfterScan(r, d) ==
    DismissGoto(r, [d EXCEPT !.sel = 0, !.n = 0, !.idx = 0],
                IF d.dismissed THEN "m_esc2" ELSE "m_bquery")

\* `continue` (or the end of the inner loop with dismissed still False)
NextSelector(r, d) ==
    IF d.sel < NumSelectors
    THEN DismissGoto(r, [d EXCEPT !.sel = @ + 1, !.n = 0, !.idx = 0], "m_query")
    ELSE AfterScan(r, d)

DismissEscape1(r) ==
    /\ pc[r] = "m_esc1"
    /\ LoopFree(r)
    /\ \/ DismissGoto(r, Logged(dm[r], "escape"), "m_wait1")
       \/ DismissReturn(r, Failed(Logged(dm[r], "escape")))
    /\ UNCHANGED <<req, page, pages, exc, ret, resp, raised, nav, cnt,
                   embedIn, worker, maxInputs, cli>>

DismissWait1(r) ==
    /\ pc[r] = "m_wait1"
    /\ LoopFree(r)
    /\ \/ DismissGoto(r, [dm[r] EXCEPT !.sel = 1], "m_query")
       \/ DismissReturn(r, Failed(dm[r]))
    /\ UNCHANGED <<req, page, pages, exc, ret, resp, raised, nav, cnt,
                   embedIn, worker, maxInputs, cli>>

\* page.query_selector_all(selector)
DismissQuery(r) ==
    /\ pc[r] = "m_query"
    /\ LoopFree(r)
    /\ LET d == IF dm[r].sel = 1 THEN Logged(dm[r], "selectors") ELSE dm[r]
       IN  \/ \E n \in 0..MaxElems :
                IF n = 0 THEN NextSelector(r, d)
                ELSE DismissGoto(r, [d EXCEPT !.n = n, !.idx = 1], "m_visible")
           \/ NextSelector(r, Failed(d))
    /\ UNCHANGED <<req, page, pages, exc, ret, resp, raised, nav, cnt,
                   embedIn, worker, maxInputs, cli>>

\* element.is_visible()
DismissIsVisible(r) ==
    /\ pc[r] = "m_visible"
    /\ LoopFree(r)
    /\ \/ DismissGoto(r, dm[r], "m_click")
       \/ IF dm[r].idx < dm[r].n
          THEN DismissGoto(r, [dm[r] EXCEPT !.idx = @ + 1], "m_visible")
          ELSE NextSelector(r, dm[r])
       \/ NextSelector(r, Failed(dm[r]))
    /\ UNCHANGED <<req, page, pages, exc, ret, resp, raised, nav, cnt,
                   embedIn, worker, maxInputs, cli>>

\* element.click()
DismissClick(r) ==
    /\ pc[r] = "m_click"
    /\ LoopFree(r)
    /\ LET d == [dm[r] EXCEPT !.clicks = @ + 1]
       IN  \/ DismissGoto(r, [d EXCEPT !.clicked = @ + 1], "m_clickwait")
           \/ NextSelector(r, Failed(d))
    /\ UNCHANGED <<req, page, pages, exc, ret, resp, raised, nav, cnt,
                   embedIn, worker, maxInputs, cli>>

\* page.wait_for_timeout(200); dismissed = True; break
DismissClickWait(r) ==
    /\ pc[r] = "m_clickwait"
    /\ LoopFree(r)
    /\ \/ AfterScan(r, [dm[r] EXCEPT !.dismissed = TRUE])
       \/ NextSelector(r, Failed(dm[r]))
    /\ UNCHANGED <<req, page, pages, exc, ret, resp, raised, nav, cnt,
                   embedIn, worker, maxInputs, cli>>

\* page.query_selector('.modal-backdrop, ...')
DismissBackdropQuery(r) ==
    /\ pc[r] = "m_bquery"
    /\ LoopFree(r)
    /\ LET d == Logged(dm[r], "backdrop")
       IN  \/ \E where \in {"m_bvisible", "m_esc2"} : DismissGoto(r, d, where)
           \/ DismissGoto(r, Failed(d), "m_esc2")
    /\ UNCHANGED <<req, page, pages, exc, ret, resp, raised, nav, cnt,
                   embedIn, worker, maxInputs, cli>>

\* backdrop.is_visible()
DismissBackdropVisible(r) ==
    /\ pc[r] = "m_bvisible"
    /\ LoopFree(r)
    /\ \/ \E where \in {"m_bclick", "m_esc2"} : DismissGoto(r, dm[r], where)
       \/ DismissGoto(r, Failed(dm[r]), "m_esc2")
    /\ UNCHANGED <<req, page, pages, exc, ret, resp, raised, nav, cnt,
                   embedIn, worker, maxInputs, cli>>

\* backdrop.click()
DismissBackdropClick(r) ==
    /\ pc[r] = "m_bclick"
    /\ LoopFree(r)
    /\ LET d == [dm[r] EXCEPT !.backdropClicks = @ + 1]
       IN  \/ DismissGoto(r, d, "m_bwait")
           \/ DismissGoto(r, Failed(d), "m_esc2")
    /\ UNCHANGED <<req, page, pages, exc, ret, resp, raised, nav, cnt,
                   embedIn, worker, maxInputs, cli>>

DismissBackdropWait(r) ==
    /\ pc[r] = "m_bwait"
    /\ LoopFree(r)
    /\ \E d \in {dm[r], Failed(dm[r])} : DismissGoto(r, d, "m_esc2")
    /\ UNCHANGED <<req, page, pages, exc, ret, resp, raised, nav, cnt,
                   embedIn, worker, maxInputs, cli>>

DismissEscape2(r) ==
    /\ pc[r] = "m_esc2"
    /\ LoopFree(r)
    /\ \/ DismissGoto(r, Logged(dm[r], "escape"), "m_wait2")
       \/ DismissReturn(r, Failed(Logged(dm[r], "escape")))
    /\ UNCHANGED <<req, page, pages, exc, ret, resp, raised, nav, cnt,
                   embedIn, worker, maxInputs, cli>>

DismissWait2(r) ==
    /\ pc[r] = "m_wait2"
    /\ LoopFree(r)
    /\ \/ DismissGoto(r, dm[r], "m_settle")
       \/ DismissReturn(r, Failed(dm[r]))
    /\ UNCHANGED <<req, page, pages, exc, ret, resp, raised, nav, cnt,
                   embedIn, worker, maxInputs, cli>>

\* the final page.wait_for_timeout(500)
DismissSettle(r) ==
    /\ pc[r] = "m_settle"
    /\ LoopFree(r)
    /\ \E d \in {dm[r], Failed(dm[r])} : DismissReturn(r, Logged(d, "settle"))
    /\ UNCHANGED <<req, page, pages, exc, ret, resp, raised, nav, cnt,
                   embedIn, worker, maxInputs, cli>>

\* ------------------------------------------------------------ back in _get_dom_from_url
\* page.content(); an exception is printed and None returned
DomContent(r) ==
    /\ pc[r] = "d_content"
    /\ LoopFree(r)
    /\ cnt' = Count(r, "extract")
    /\ \E html \in {"<html>", None} : ret' = Set(ret, r, html)
    /\ pc' = Set(pc, r, "d_close")
    /\ UNCHANGED <<req, page, pages, exc, resp, raised, nav, dm,
                   embedIn, worker, maxInputs, cli>>

\* finally: await page.close(); then embed_dom's `if not dom_content`
DomClose(r) ==
    /\ pc[r] = "d_close"
    /\ LoopFree(r)
    /\ \/ /\ pages' = Set(pages, page[r], CloseInFinally(pages[page[r]], exc[r], "closed", FALSE))
          /\ IF ~Truthy(ret[r])
             THEN /\ resp' = Set(resp, r, DomFetchFailed(req[r].url))
                  /\ pc' = Set(pc, r, "done")
             ELSE /\ resp' = resp
                  /\ pc' = Set(pc, r, "d_embed")
       \/ \* page.close() raises: embed_dom's except answers
          \E st \in {"open", "closed"} :
             /\ pages' = Set(pages, page[r], CloseInFinally(pages[page[r]], exc[r], st, TRUE))
             /\ resp' = Set(resp, r, DomFailed(req[r].url, BrowserMsg))
             /\ pc' = Set(pc, r, "done")
    /\ UNCHANGED <<req, page, exc, ret, raised, nav, cnt, dm,
                   embedIn, worker, maxInputs, cli>>

\* ------------------------------------------------------------ embed_dom
\* self.dom_embedder.embed_dom(dom_content) and the envelope built from feat
DomEmbed(r) ==
    /\ pc[r] = "d_embed"
    /\ LoopFree(r)
    /\ cnt' = Count(r, "embed")
    /\ embedIn' = Set(embedIn, r, ret[r])
    /\ \/ \E shape \in FeatShapes :
             resp' = Set(resp, r,
                         IF HasLastDim(shape) THEN DomSuccess(req[r].url, shape)
                         ELSE DomFailed(req[r].url, IndexMsg))
       \/ resp' = Set(resp, r, DomFailed(req[r].url, ModelMsg))
    /\ pc' = Set(pc, r, "done")
    /\ UNCHANGED <<req, page, pages, exc, ret, raised, nav, dm,
                   worker, maxInputs, cli>>

\* ------------------------------------------------------------ setup / teardown
\* @modal.enter(): the two embedders, then async_playwright().start(), then
\* chromium.launch(); the first call that raises ends setup there
Setup ==
    /\ worker.phase = "cold"
    /\ \E failing \in {"none", "embedder", "dom_embedder", "pw", "launch"} :
          worker' =
             CASE failing = "embedder" -> [worker EXCEPT !.phase = "failed"]
               [] failing = "dom_embedder" ->
                     [worker EXCEPT !.phase = "failed", !.embedder = "loaded"]
               [] failing = "pw" ->
                     [worker EXCEPT !.phase = "failed", !.embedder = "loaded",
                                    !.dom_embedder = "loaded"]
               [] failing = "launch" ->
                     [worker EXCEPT !.phase = "failed", !.embedder = "loaded",
                                    !.dom_embedder = "loaded",
                                    !.pw = "started", !.pwStarts = @ + 1]
               [] OTHER ->
                     [worker EXCEPT !.phase = "warm", !.embedder = "loaded",
                                    !.dom_embedder = "loaded",
                                    !.pw = "started", !.pwStarts = @ + 1,
                                    !.browser = "up", !.launches = @ + 1]
    /\ UNCHANGED <<pc, req, page, pages, exc, ret, resp, raised, nav, cnt, dm,
                   embedIn, maxInputs, cli>>

\* @modal.exit(): await self.browser.close(), then await self.pw.stop(), with
\* nothing caught.  After a setup that failed self.browser was never assigned
\* and the first line raises AttributeError.
Teardown ==
    /\ worker.phase \in {"warm", "failed"}
    /\ \A q \in Reqs : ~InContainer(q)
    /\ IF worker.browser = "unset"
       THEN worker' = [worker EXCEPT !.phase = "stopped"]
       ELSE \/ \* browser.close() returns; pw.stop() returns or raises
               \E stopped \in {"stopped", "started"} :
                  worker' = [worker EXCEPT !.phase = "stopped",
                                           !.browser = "closed", !.closes = @ + 1,
                                           !.pw = stopped, !.pwStops = @ + 1]
            \/ \* browser.close() raises: pw.stop() is not reached
               \E left \in {"closed", "up"} :
                  worker' = [worker EXCEPT !.phase = "stopped",
                                           !.browser = left, !.closes = @ + 1]
    /\ UNCHANGED <<pc, req, page, pages, exc, ret, resp, raised, nav, cnt, dm,
                   embedIn, maxInputs, cli>>

\* ------------------------------------------------------------ specification
Next ==
    \/ Setup
    \/ Teardown
    \/ \E r \in Reqs :
          \/ WebGenerate(r)
          \/ WebEmbedDom(r)
          \/ WebHealthCheck(r)
          \/ Respond(r)
          \/ ScreenshotNewPage(r)
          \/ ScreenshotGoto(r)
          \/ ScreenshotEscape(r)
          \/ ScreenshotCapture(r)
          \/ ScreenshotClose(r)
          \/ GenerateEmbed(r)
          \/ EmbedImage(r)
          \/ DomNewPage(r)
          \/ DomGoto(r)
          \/ DismissEscape1(r)
          \/ DismissWait1(r)
          \/ DismissQuery(r)
          \/ DismissIsVisible(r)
          \/ DismissClick(r)
          \/ DismissClickWait(r)
          \/ DismissBackdropQuery(r)
          \/ DismissBackdropVisible(r)
          \/ DismissBackdropClick(r)
          \/ DismissBackdropWait(r)
          \/ DismissEscape2(r)
          \/ DismissWait2(r)
          \/ DismissSettle(r)
          \/ DomContent(r)
          \/ DomClose(r)
          \/ DomEmbed(r)

Spec == Init /\ [][Next]_vars

ConcSpec == ConcInit /\ [][Next]_vars

\* ------------------------------------------------------------ command-line scripts
\* local_embedder.py and dom_embedder.py: main() of each, one run per behaviour
Progs == {"local_embedder", "dom_embedder"}
White == {" ", "\n"}
BadByte == "0xff"                    \* a byte that is not valid UTF-8
Args == {"", "aGVsbG8=", "abc"}
Argvs(prog) ==
    {<<prog>>} \cup {<<prog, a>> : a \in Args} \cup {<<prog, a, "extra">> : a \in Args}

\* what can be piped into the script, as tokens: nothing, blanks only, a
\* payload with its newline, a payload with bad padding, undecodable bytes
Stdins == {<<>>, <<" ", "\n">>, <<"aGVsbG8=", "\n">>, <<"abc">>, <<BadByte>>}

\* str.strip()
RECURSIVE LStrip(_)
LStrip(s) == IF s # <<>> /\ Head(s) \in White THEN LStrip(Tail(s)) ELSE s
RECURSIVE RStrip(_)
RStrip(s) ==
    IF s # <<>> /\ s[Len(s)] \in White THEN RStrip(SubSeq(s, 1, Len(s) - 1)) ELSE s
Strip(s) == RStrip(LStrip(s))

\* the text of a stripped input (the inputs hold at most one non-blank token)
Join(s) == IF s = <<>> THEN "" ELSE Head(s)

\* sys.stdin.read() raises UnicodeDecodeError on undecodable bytes when the
\* stream's error handler is strict; with surrogateescape it returns them
StdinReadRaises(text, errors) ==
    errors = "strict" /\ \E i \in 1..Len(text) : text[i] = BadByte

\* base64.b64decode of the script's input: non-ASCII text and bad padding raise
CliDecodeOk(b64) == b64 # BadByte /\ B64DecodeOk(b64)

\* len(embedding_list): TypeError when tolist() gave a bare number
HasLen(shape) == Len(shape) > 0
FirstDim(shape) == shape[1]

UsageMsg == "Usage: python local_embedder.py <base64_image>"
NoStdinMsg == "No base64 HTML supplied via stdin"
InitMsg(prog) ==
    IF prog = "local_embedder" THEN "Failed to initialize DreamSim model: "
    ELSE "Failed to initialize MarkupLM model: "
TypeMsg == "object of type 'float' has no len()"

CliFailure(msg) == [success |-> FALSE, error |-> msg]
CliSuccess(shape) ==
    [success |-> TRUE, embedding |-> <<"vector", shape>>,
     dimensions |-> FirstDim(shape)]

\* print(json.dumps(obj))
CliPrint(c, obj) == [c EXCEPT !.stdout = Append(@, obj)]
\* sys.exit(code), the normal end of main (0), an uncaught exception (1)
CliExit(c, code) == [c EXCEPT !.pc = "exited", !.status = code]

\* `except Exception` in main: SystemExit is a BaseException and passes it
CaughtByMain(e) == e # "SystemExit"

CliInit ==
    /\ NoRequests
    /\ maxInputs = 1
    /\ \E prog \in Progs, errors \in {"strict", "surrogateescape"} :
          \E argv \in Argvs(prog), stdin \in Stdins :
             cli = [NoCli EXCEPT !.pc = "main", !.prog = prog, !.argv = argv,
                                 !.stdin = stdin, !.errors = errors]

\* the head of main(): the argument count test
CliMain ==
    /\ cli.pc = "main"
    /\ cli' =
         IF cli.prog = "local_embedder"
         THEN IF Len(cli.argv) # 2
              THEN CliExit(CliPrint(cli, CliFailure(UsageMsg)), 1)
              ELSE [cli EXCEPT !.base64 = cli.argv[2], !.pc = "setup"]
         ELSE IF Len(cli.argv) = 2
              THEN [cli EXCEPT !.base64 = cli.argv[2], !.pc = "setup"]
              ELSE [cli EXCEPT !.pc = "read_stdin"]
    /\ UNCHANGED serviceVars

\* dom_embedder.py: base64_html = sys.stdin.read().strip(), outside the try
CliReadStdin ==
    /\ cli.pc = "read_stdin"
    /\ cli' =
         IF StdinReadRaises(cli.stdin, cli.errors)
         THEN CliExit(cli, 1)
         ELSE IF Strip(cli.stdin) = <<>>
              THEN CliExit(CliPrint(cli, CliFailure(NoStdinMsg)), 1)
              ELSE [cli EXCEPT !.base64 = Join(Strip(cli.stdin)), !.pc = "setup"]
    /\ UNCHANGED serviceVars

\* embedder = LocalDreamSimEmbedder() / DOMEmbedder(): setup() prints and
\* calls sys.exit(1) itself when the model cannot be loaded
CliSetup ==
    /\ cli.pc = "setup"
    /\ \/ cli' = [cli EXCEPT !.pc = "embed"]
       \/ LET c == CliPrint(cli, CliFailure(<<InitMsg(cli.prog), ModelMsg>>))
          IN  cli' = IF CaughtByMain("SystemExit")
                     THEN CliExit(CliPrint(c, CliFailure("1")), 1)
                     ELSE CliExit(c, 1)
    /\ UNCHANGED serviceVars

\* embedder.embed_base64(...): decode, then the model; every exception is
\* answered by main's except with a failure object and sys.exit(1)
CliEmbedBase64 ==
    /\ cli.pc = "embed"
    /\ IF ~CliDecodeOk(cli.base64)
       THEN cli' = CliExit(CliPrint(cli, CliFailure(PaddingMsg)), 1)
       ELSE \/ /\ ~(cli.prog = "local_embedder" /\ B64Decode(cli.base64) = "")
               /\ \E shape \in FeatShapes :
                     cli' = [cli EXCEPT !.feat = shape, !.pc = "result"]
            \/ cli' = CliExit(CliPrint(cli, CliFailure(ModelMsg)), 1)
    /\ UNCHANGED serviceVars

\* embedding_tensor.tolist(), the result dict, print; main returns
CliResult ==
    /\ cli.pc = "result"
    /\ cli' = IF HasLen(cli.feat)
              THEN CliExit(CliPrint(cli, CliSuccess(cli.feat)), 0)
              ELSE CliExit(CliPrint(cli, CliFailure(TypeMsg)), 1)
    /\ UNCHANGED serviceVars

CliNext ==
    \/ CliMain
    \/ CliReadStdin
    \/ CliSetup
    \/ CliEmbedBase64
    \/ CliResult

CliSpec == CliInit /\ [][CliNext]_vars

\* ------------------------------------------------------------ properties
Populated(v) == v # None /\ v # ""
Answered(r) == pc[r] = "done" /\ "success" \in DOMAIN resp[r]
Fields(r) == DOMAIN resp[r]
FullRun == <<"escape", "selectors", "backdrop", "escape", "settle">>
SkipRun == <<"escape", "selectors", "escape", "settle">>
IsPrefix(s, t) == Len(s) <= Len(t) /\ \A i \in 1..Len(s) : s[i] = t[i]
InCapture(r) == pc[r] \notin {"idle", "done", "g_embed", "d_embed", "i_embed"}
OpenPages == {p \in PageIds : pages[p].state = "open"}
OwnPage ==
    /\ \A r \in Reqs : page[r] # 0 => pages[page[r]].owner = r
    /\ \A p \in PageIds : pages[p].state # "unused" => page[pages[p].owner] = p
OwnerMoves ==
    \A p \in PageIds :
       pages'[p] # pages[p] =>
          \E r \in Reqs :
             /\ pc'[r] # pc[r]
             /\ \A q \in Reqs \ {r} : pc'[q] = pc[q]
             /\ \/ pages[p].owner = r
                \/ pages[p].state = "unused" /\ pages'[p].owner = r
UrlRequest(r) ==
    \/ req[r].endpoint = "/" /\ RootRoute(req[r].url, req[r].image) = "generate"
    \/ req[r].endpoint = "/dom" /\ DomRoute(req[r].url) = "embed_dom"
CaptureSucceeded(r) ==
    /\ Truthy(ret[r])
    /\ page[r] # 0
    /\ pages[page[r]].closeCalls = 1 /\ ~pages[page[r]].closeRaised
Ran(r, what) == \E i \in 1..Len(dm[r].log) : dm[r].log[i] = what

\* C1: a page that a URL request opened has had close() called on it exactly
\* once by the time the request goes on to embed, returns or raises (and is
\* closed then, unless close() itself raised); close() is never called twice.
C1_PageClosedOnce ==
    \A r \in Reqs :
       /\ page[r] # 0 => pages[page[r]].closeCalls <= 1
       /\ (page[r] # 0 /\ pc[r] \in {"g_embed", "d_embed", "done"}) =>
             /\ pages[page[r]].closeCalls = 1
             /\ ~pages[page[r]].closeRaised => pages[page[r]].state = "closed"

C1_Witness ==
    \E r \in Reqs :
       /\ pc[r] = "done" /\ req[r].endpoint = "/" /\ nav[r] = "timeout"
       /\ page[r] # 0 /\ pages[page[r]].closeCalls = 1
       /\ pages[page[r]].state = "closed"

\* C2: every finished request to POST / or POST /dom has a response envelope
\* that holds exactly one of embedding and error: embedding exactly when
\* success is true, error exactly when success is false.
C2_ExactlyOneOfEmbeddingOrError ==
    \A r \in Reqs :
       (pc[r] = "done" /\ req[r].endpoint \in {"/", "/dom"}) =>
          /\ "success" \in Fields(r)
          /\ ("embedding" \in Fields(r)) # ("error" \in Fields(r))
          /\ ("embedding" \in Fields(r)) <=> resp[r].success

\* C3: no failure of a request leaves its handler as a raised exception;
\* a finished request has a response envelope.
C3_NoFailureEscapes ==
    \A r \in Reqs :
       /\ raised[r] = NoExc
       /\ (pc[r] = "done" /\ req[r].endpoint \in {"/", "/dom"}) =>
             "success" \in Fields(r)

\* C4: a URL request whose navigation timed out ends with a failure envelope,
\* its page closed, and page.goto called exactly once.
C4_TimeoutFailsCleanly ==
    \A r \in Reqs :
       (pc[r] = "done" /\ nav[r] = "timeout") =>
          /\ "success" \in Fields(r)
          /\ resp[r].success = FALSE
          /\ pages[page[r]].closeCalls = 1
          /\ cnt[r].goto = 1

\* C5 (as claimed): whenever a capture has extracted its artifact, the
\* Dismissal Heuristic has been run exactly once and had finished.
C5_FullDismissalBeforeExtraction ==
    \A r \in Reqs :
       cnt[r].extract > 0 => (cnt[r].dismiss = 1 /\ dm[r].returned)

\* C5 (amended): the artifact is extracted at most once and only after a
\* successful navigation; in the markup capture _dismiss_modals has then been
\* called exactly once and has returned; in the screenshot capture
\* _dismiss_modals is never called and exactly one Escape key press was sent.
C5_DismissalBeforeExtraction ==
    \A r \in Reqs :
       /\ req[r].endpoint = "/" => (cnt[r].dismiss = 0 /\ dm[r].log = <<>>)
       /\ cnt[r].extract > 0 =>
             /\ cnt[r].extract = 1
             /\ nav[r] = "ok"
             /\ req[r].endpoint = "/dom" =>
                   (cnt[r].dismiss = 1 /\ dm[r].returned /\ cnt[r].escape = 0)
             /\ req[r].endpoint = "/" => cnt[r].escape = 1

C5_Witness ==
    \E r \in Reqs :
       /\ req[r].endpoint = "/dom" /\ cnt[r].extract = 1
       /\ dm[r].returned /\ dm[r].log = FullRun
       /\ ret[r] = "<html>"

\* C6: an error raised by a dismissal step never makes the request fail: the
\* request that saw it still extracts its artifact and raises nothing.
C6_DismissalErrorsAbsorbed ==
    \A r \in Reqs :
       (pc[r] = "done" /\ dm[r].stepFailed) =>
          (raised[r] = NoExc /\ cnt[r].extract = 1)

C8_BothFieldsRejected ==
    \A r \in Reqs :
       (req[r].endpoint = "/" /\ Populated(req[r].url) /\ Populated(req[r].image)) =>
          /\ pc[r] = "done"
          /\ Answered(r) /\ resp[r].success = FALSE
          /\ cnt[r] = NoCnt

\* C8 (amended): a POST / request with both url and image populated is
\* processed as a URL request: generate runs on the url (a page is asked
\* for), embed_image is never entered, and an envelope it returns carries
\* the url.
C8_UrlTakesPrecedence ==
    \A r \in Reqs :
       (req[r].endpoint = "/" /\ Populated(req[r].url) /\ Populated(req[r].image)) =>
          /\ pc[r] \in {"g_newpage", "g_goto", "g_escape", "g_shot", "g_close",
                        "g_embed", "done"}
          /\ pc[r] = "done" => cnt[r].newPage = 1
          /\ Answered(r) => ("url" \in Fields(r) /\ resp[r].url = req[r].url)

C8_Witness ==
    \E r \in Reqs :
       /\ req[r].endpoint = "/" /\ Populated(req[r].url) /\ Populated(req[r].image)
       /\ Answered(r) /\ resp[r].success = TRUE
       /\ "screenshot" \in Fields(r)

\* C9: a failure response of POST /dom to a request with a non-empty url
\* carries that url, and after a failed navigation its error carries the
\* navigation failure message.
C9_DomFailureCarriesUrl ==
    \A r \in Reqs :
       (Answered(r) /\ req[r].endpoint = "/dom" /\ Populated(req[r].url)
                    /\ resp[r].success = FALSE) =>
          /\ "url" \in Fields(r)
          /\ resp[r].url = req[r].url
          /\ (nav[r] \in {"timeout", "error"} /\ ~pages[page[r]].closeRaised) =>
                resp[r].error[Len(resp[r].error)] = GotoMsg(nav[r])

\* C10: a POST / request with only image populated never asks for a page and
\* never navigates; it goes straight to embed_image, and its response holds
\* neither url nor screenshot.
C10_ImageSkipsBrowser ==
    \A r \in Reqs :
       (req[r].endpoint = "/" /\ ~Populated(req[r].url) /\ Populated(req[r].image)) =>
          /\ pc[r] \in {"i_embed", "done"}
          /\ page[r] = 0
          /\ cnt[r].newPage = 0 /\ cnt[r].goto = 0 /\ cnt[r].extract = 0
          /\ raised[r] = NoExc
          /\ pc[r] = "done" =>
                /\ "success" \in Fields(r)
                /\ "url" \notin Fields(r)
                /\ "screenshot" \notin Fields(r)

C10_Witness ==
    \E r \in Reqs :
       /\ req[r].endpoint = "/" /\ req[r].url = None /\ Populated(req[r].image)
       /\ Answered(r) /\ resp[r].success = TRUE /\ cnt[r].embed = 1
       /\ Fields(r) = {"success", "embedding", "dimensions"}

\* C11: a GET /health request is answered {status: "ok", service: <name>}
\* in every state of the worker and of the other requests, and no browser
\* operation and no embedding call is made for it.
C11_HealthAlwaysOk ==
    \A r \in Reqs :
       req[r].endpoint = "/health" =>
          /\ pc[r] = "done"
          /\ Fields(r) = {"status", "service"}
          /\ resp[r].status = "ok"
          /\ resp[r].service = "website-embed-service"
          /\ raised[r] = NoExc
          /\ page[r] = 0 /\ cnt[r] = NoCnt /\ embedIn[r] = None
          /\ \A p \in PageIds : pages[p].owner # r

C11_Witness ==
    \E r, q \in Reqs :
       /\ req[r].endpoint = "/health" /\ pc[r] = "done" /\ resp[r].status = "ok"
       /\ pc[q] = "m_click" /\ pages[page[q]].state = "open"

\* C12: in one run of _dismiss_modals an error in any single step is swallowed
\* by that step and every later step is still executed: whatever failed, a
\* run that has returned went through both Escape presses, the selector scan,
\* the backdrop step (unless the scan dismissed) and the settle delay.
C12_EveryStepRuns ==
    \A r \in Reqs :
       dm[r].returned =>
          \/ dm[r].log = FullRun
          \/ dm[r].dismissed /\ dm[r].log = SkipRun

C14_BackdropOnlyIfNoClick ==
    \A r \in Reqs :
       dm[r].clicked > 0 =>
          /\ ~Ran(r, "backdrop")
          /\ dm[r].backdropClicks = 0

\* C15: the Playwright driver and the browser are each acquired at most once,
\* and once teardown has run every acquired resource has been released
\* exactly once: as many pw.stop() as async_playwright().start(), as many
\* browser.close() as chromium.launch(), and neither handle is left live.
C15_ResourcesPaired ==
    /\ worker.pwStarts <= 1
    /\ worker.launches <= 1
    /\ worker.phase = "stopped" =>
          /\ worker.pwStops = worker.pwStarts
          /\ worker.closes = worker.launches
          /\ worker.pw # "started"
          /\ worker.browser # "up"

C17_InferenceSerialized ==
    /\ [](Cardinality({r \in Reqs : InInference(r)}) <= 1)
    /\ [][\A r, q \in Reqs :
             (r # q /\ InInference(r) /\ pc[q] \notin {"idle", "done"}) =>
                pc'[q] = pc[q]]_vars

C17_Witness ==
    \E r, q \in Reqs :
       /\ pc[r] = "g_embed" /\ embedIn[r] = None
       /\ pc[q] = "m_click" /\ pages[page[q]].state = "open"

\* C18: a success envelope is returned only when the vector that the
\* embedding capability produced has the native width, and then dimensions
\* equals that width; a vector of any other shape gives a failure envelope.
C18_SuccessOnlyNativeWidth ==
    \A r \in Reqs :
       (Answered(r) /\ resp[r].success = TRUE) =>
          /\ resp[r].embedding = <<"vector", <<EmbedWidth>>>>
          /\ resp[r].dimensions = EmbedWidth

\* C19: for every URL request the artifact (screenshot bytes or markup) is
\* extracted at most once and passed to the embedding capability at most
\* once, exactly once when the capture returned it, and unchanged; in a
\* successful POST / url response `screenshot` is the base64 of exactly the
\* embedded bytes and `screenshot_size` is their length.
C19_ArtifactEmbeddedOnceUnchanged ==
    \A r \in Reqs :
       UrlRequest(r) =>
          /\ cnt[r].extract <= 1
          /\ cnt[r].embed <= 1
          /\ cnt[r].embed = 1 =>
                /\ cnt[r].extract = 1
                /\ CaptureSucceeded(r)
                /\ embedIn[r] = ret[r]
          /\ (pc[r] = "done" /\ CaptureSucceeded(r)) => cnt[r].embed = 1
          /\ (Answered(r) /\ resp[r].success = TRUE /\ req[r].endpoint = "/") =>
                /\ cnt[r].embed = 1
                /\ resp[r].screenshot = B64Encode(embedIn[r])
                /\ resp[r].screenshot_size = Len(embedIn[r])

C19_Witness ==
    \E r \in Reqs :
       /\ UrlRequest(r) /\ req[r].endpoint = "/"
       /\ Answered(r) /\ resp[r].success = TRUE
       /\ cnt[r].extract = 1 /\ cnt[r].embed = 1
       /\ embedIn[r] = "JPEG" /\ resp[r].screenshot_size = 4

\* C20: a step of any request handler (generate, embed_image, embed_dom,
\* health, and the return of the response), successful or failed, leaves the
\* worker's handles (browser, driver, both embedders) as they were; the
\* handles are created only by setup, on a cold worker, and released only by
\* teardown.
C20_HandlersKeepWorker ==
    [][/\ (\E r \in Reqs : pc'[r] # pc[r]) => worker' = worker
       /\ worker' # worker =>
             \/ worker.phase = "cold" /\ worker'.phase \in {"warm", "failed"}
             \/ /\ worker.phase \in {"warm", "failed"} /\ worker'.phase = "stopped"
                /\ worker'.embedder = worker.embedder
                /\ worker'.dom_embedder = worker.dom_embedder
                /\ worker'.pwStarts = worker.pwStarts
                /\ worker'.launches = worker.launches]_vars

C20_Witness ==
    \E r \in Reqs :
       /\ pc[r] = "done" /\ req[r].endpoint = "/" /\ raised[r] = BrowserMsg
       /\ page[r] = 0 /\ cnt[r].newPage = 1
       /\ worker = [ColdWorker EXCEPT !.phase = "warm", !.embedder = "loaded",
                                      !.dom_embedder = "loaded", !.pw = "started",
                                      !.browser = "up", !.pwStarts = 1,
                                      !.launches = 1]

\* C21: in one run of _dismiss_modals the selector scan clicks at most one
\* element: once element.click() has been called on a selector match,
\* whether the click or the wait after it returned or raised, no further
\* selector-matched element is clicked in that run.
C21_AtMostOneClick ==
    \A r \in Reqs :
       /\ dm[r].clicks <= 1
       /\ dm[r].clicked <= 1

\* C22: for every URL request the embedding capability is invoked only after
\* the request's page has been closed: a request that is inside the inference
\* call, or has been through it, has a page on which close() was called once
\* and returned, and that page is not open.
C22_EmbedAfterPageClosed ==
    \A r \in Reqs :
       (UrlRequest(r) /\ (InInference(r) \/ cnt[r].embed > 0)) =>
          /\ page[r] # 0
          /\ pages[page[r]].state = "closed"
          /\ pages[page[r]].closeCalls = 1
          /\ ~pages[page[r]].closeRaised
          /\ OpenPages \cap {p \in PageIds : pages[p].owner = r} = {}

C22_Witness ==
    \E r \in Reqs :
       /\ req[r].endpoint = "/dom" /\ pc[r] = "d_embed"
       /\ dm[r].returned /\ Truthy(ret[r])
       /\ pages[page[r]].state = "closed"

\* C23: every run of main() of local_embedder.py and of dom_embedder.py
\* writes exactly one JSON object to standard output, never more than one
\* while it runs, and its exit status is non-zero exactly when that object
\* has success false.
C23_OneObjectAndMatchingStatus ==
    /\ Len(cli.stdout) <= 1
    /\ cli.pc = "exited" =>
          /\ Len(cli.stdout) = 1
          /\ (cli.status # 0) <=> (cli.stdout[1].success = FALSE)

====
